---- MODULE Spec2Model ----
(***************************************************************************)
(* Battleship (human vs. computer): the boards, the turn state machine,    *)
(* the HUNT/TARGET targeting engine and the localStorage session store of  *)
(* src/battleship/script.js.                                               *)
(*                                                                         *)
(* Every handler of the script is a function from the process-wide state   *)
(* (a record, see State) to its successor state(s); an action applies one  *)
(* handler to the current state.  The DOM painting calls (markCell,        *)
(* setTurnUI, setStatsUI, updateInteractivity, buildBoardUI) keep no state *)
(* the game logic reads and are left out; the status line is kept because  *)
(* saveGame persists it.                                                   *)
(*                                                                         *)
(* The game runs on a scaled-down grid and fleet (GRID_SIZE, SHIPS) so     *)
(* that every behaviour can be enumerated.                                 *)
(***************************************************************************)
EXTENDS Integers, Sequences, FiniteSets, TLC

VARIABLES userBoard, aiBoard, currentTurn, gameOver, userShots, aiShots,
          aiState, status, storage, timers,
          placing    \* ships placed so far while the placement runs step by
                     \* step (PlaceSpec); 0 in the game specifications, where
                     \* resetGame places the fleets in one step

vars == <<userBoard, aiBoard, currentTurn, gameOver, userShots, aiShots,
          aiState, status, storage, timers, placing>>

(***************************************************************************)
(* Sizes.                                                                  *)
(***************************************************************************)
\* Side of the square grid (10 in the script; scaled down).
GRID_SIZE == 3

\* Fleet: the ship lengths, in placement order ([5, 3, 2] in the script;
\* scaled to the grid, still several ships of length >= 2).
SHIPS == <<2, 2>>

\* The human clicks only the first MaxClick cells of the computer's board,
\* in row-major order.
MaxClick == 6

\* At most MaxTimers scheduled aiTakeTurnLoop callbacks are pending at once.
MaxTimers == 2

\* Version number saveGame writes.
SAVE_VERSION == 2

Range(seq) == {seq[i] : i \in DOMAIN seq}

\* F(v), with v evaluated once (a const declaration of the script).
Bind(v, F(_)) == CHOOSE r \in {F(x) : x \in {v}} : TRUE

(***************************************************************************)
(* Coordinates and keys.  A key "r,c" is modelled as the pair <<r, c>>.    *)
(***************************************************************************)
keyOf(r, c) == <<r, c>>

parseKey(k) == [r |-> k[1], c |-> k[2]]

inBounds(r, c) == r >= 0 /\ r < GRID_SIZE /\ c >= 0 /\ c < GRID_SIZE

\* Outcomes of randomInt(min, maxInclusive).
randomInt(min, maxInclusive) == min..maxInclusive

Cells == {keyOf(r, c) : r \in 0..(GRID_SIZE - 1), c \in 0..(GRID_SIZE - 1)}

\* Row-major position of a cell (the order of the nested r, c loops and of
\* the board's child elements).
CellIndex(k) == k[1] * GRID_SIZE + k[2]

createEmptyBoard == [shipCells |-> {}, hitCells |-> {}, missCells |-> {}]

(***************************************************************************)
(* Ship placement.  A draw is one iteration of the sampler's loop: an      *)
(* orientation and a start.  The loop retries until a candidate is free,   *)
(* so its outcomes are the boards of all free candidates.                  *)
(***************************************************************************)
AllDraws(length) ==
    {[vertical |-> TRUE, startR |-> sr, startC |-> sc] :
        sr \in randomInt(0, GRID_SIZE - length), sc \in randomInt(0, GRID_SIZE - 1)}
    \cup
    {[vertical |-> FALSE, startR |-> sr, startC |-> sc] :
        sr \in randomInt(0, GRID_SIZE - 1), sc \in randomInt(0, GRID_SIZE - length)}

candidateCells(d, length) ==
    {keyOf(IF d.vertical THEN d.startR + i ELSE d.startR,
           IF d.vertical THEN d.startC ELSE d.startC + i) : i \in 0..(length - 1)}

\* placeOneShipRandomly without the test for occupied cells.
placeOneShipRandomlyNoTest(board, length, draws) ==
    {[board EXCEPT !.shipCells = @ \cup candidateCells(d, length)] : d \in draws}

placeOneShipRandomly(board, length, draws) ==
    {[board EXCEPT !.shipCells = @ \cup candidateCells(d, length)] :
        d \in {x \in draws : candidateCells(x, length) \cap board.shipCells = {}}}

\* The draws the game specifications take for the i-th ship: a sample of
\* the sampler's outcomes (a vertical ship in the corner, the next ship
\* either side by side with it or apart from it and horizontal).
SampledDraws(i) ==
    {d \in AllDraws(SHIPS[i]) :
        <<d.vertical, d.startR, d.startC>> \in
            (IF i = 1 THEN {<<TRUE, 0, 0>>}
                      ELSE {<<TRUE, 0, 1>>, <<FALSE, 2, 1>>})}

RECURSIVE placeShipsFrom(_, _)
placeShipsFrom(boards, i) ==
    IF i > Len(SHIPS) THEN boards
    ELSE placeShipsFrom(
            UNION {placeOneShipRandomly(b, SHIPS[i], SampledDraws(i)) : b \in boards},
            i + 1)

placeAllShipsRandomly(board) == placeShipsFrom({board}, 1)

(***************************************************************************)
(* Game logic.                                                             *)
(***************************************************************************)
alreadyShot(board, k) == k \in board.hitCells \/ k \in board.missCells

\* applyShot without the already-shot test: a cell can be shot again.
applyShotAgain(board, r, c) ==
    LET k == keyOf(r, c)
        isHit == k \in board.shipCells
    IN  [valid |-> TRUE, isHit |-> isHit, key |-> k,
         board |-> IF isHit THEN [board EXCEPT !.hitCells = @ \cup {k}]
                            ELSE [board EXCEPT !.missCells = @ \cup {k}]]

\* applyShot testing hitCells where it should test shipCells: every shot
\* is recorded as a miss.
applyShotWrongSet(board, r, c) ==
    LET k == keyOf(r, c) IN
    IF alreadyShot(board, k)
    THEN [valid |-> FALSE, isHit |-> FALSE, key |-> k, board |-> board]
    ELSE LET isHit == k \in board.hitCells IN
         [valid |-> TRUE, isHit |-> isHit, key |-> k,
          board |-> IF isHit THEN [board EXCEPT !.hitCells = @ \cup {k}]
                             ELSE [board EXCEPT !.missCells = @ \cup {k}]]

\* The shot's result and the board it leaves.
applyShot(board, r, c) ==
    LET k == keyOf(r, c) IN
    IF alreadyShot(board, k)
    THEN [valid |-> FALSE, isHit |-> FALSE, key |-> k, board |-> board]
    ELSE LET isHit == k \in board.shipCells IN
         [valid |-> TRUE, isHit |-> isHit, key |-> k,
          board |-> IF isHit THEN [board EXCEPT !.hitCells = @ \cup {k}]
                             ELSE [board EXCEPT !.missCells = @ \cup {k}]]

\* hasWon one hit early.
hasWonEarly(defenderBoard) ==
    Cardinality(defenderBoard.hitCells) + 1 >= Cardinality(defenderBoard.shipCells)

hasWon(defenderBoard) ==
    Cardinality(defenderBoard.hitCells) = Cardinality(defenderBoard.shipCells)

(***************************************************************************)
(* The computer's targeting engine: HUNT / TARGET.                         *)
(***************************************************************************)
\* No cell: the null of aiChooseTargetModeCell, the undefined of an empty pool.
NoCell == <<>>

\* neighbors4 with the four diagonal cells as well.
neighbors4Diagonal(r, c) ==
    SelectSeq(<<[r |-> r - 1, c |-> c], [r |-> r + 1, c |-> c],
                [r |-> r, c |-> c - 1], [r |-> r, c |-> c + 1],
                [r |-> r - 1, c |-> c - 1], [r |-> r - 1, c |-> c + 1],
                [r |-> r + 1, c |-> c - 1], [r |-> r + 1, c |-> c + 1]>>,
              LAMBDA p : inBounds(p.r, p.c))

neighbors4(r, c) ==
    SelectSeq(<<[r |-> r - 1, c |-> c], [r |-> r + 1, c |-> c],
                [r |-> r, c |-> c - 1], [r |-> r, c |-> c + 1]>>,
              LAMBDA p : inBounds(p.r, p.c))

\* The keys of the neighbours of key k, in neighbors4's order.
neighborKeys(k) ==
    LET nbs == neighbors4(parseKey(k).r, parseKey(k).c) IN
    [i \in DOMAIN nbs |-> keyOf(nbs[i].r, nbs[i].c)]

\* The breadth-first loop of recomputeClusterFromHit: queue is the work
\* list, visited the visited set in insertion order.
RECURSIVE clusterLoop(_, _, _)
clusterLoop(queue, visited, hitCells) ==
    IF queue = <<>> THEN visited
    ELSE Bind(SelectSeq(neighborKeys(Head(queue)),
                        LAMBDA nk : nk \notin Range(visited) /\ nk \in hitCells),
              LAMBDA found : clusterLoop(Tail(queue) \o found, visited \o found, hitCells))

\* recomputeClusterFromHit walking through every shot cell, hit or miss.
recomputeClusterFromShots(hitKey, board) ==
    clusterLoop(<<hitKey>>, <<hitKey>>, board.hitCells \cup board.missCells)

recomputeClusterFromHit(hitKey, board) ==
    clusterLoop(<<hitKey>>, <<hitKey>>, board.hitCells)

\* uniquePush without the includes test.
uniquePushAlways(queue, k) == Append(queue, k)

uniquePush(queue, k) == IF k \in Range(queue) THEN queue ELSE Append(queue, k)

\* uniquePush of every not yet shot key of nks, in order.
RECURSIVE pushUnshot(_, _, _)
pushUnshot(queue, nks, board) ==
    IF nks = <<>> THEN queue
    ELSE Bind(IF ~alreadyShot(board, Head(nks)) THEN uniquePush(queue, Head(nks))
                                                ELSE queue,
              LAMBDA pushed : pushUnshot(pushed, Tail(nks), board))

\* The target queue after queueing the cluster's adjacent cells.
RECURSIVE aiQueueAdjacentsFromHits(_, _, _)
aiQueueAdjacentsFromHits(clusterHits, queue, board) ==
    IF clusterHits = <<>> THEN queue
    ELSE Bind(pushUnshot(queue, neighborKeys(Head(clusterHits)), board),
              LAMBDA pushed : aiQueueAdjacentsFromHits(Tail(clusterHits), pushed, board))

\* "H", "V" or "none" (the null of the script).
inferOrientation(clusterHits) ==
    IF Len(clusterHits) < 2 THEN "none"
    ELSE IF \A i \in DOMAIN clusterHits : parseKey(clusterHits[i]).r = parseKey(clusterHits[1]).r
         THEN "H"
    ELSE IF \A i \in DOMAIN clusterHits : parseKey(clusterHits[i]).c = parseKey(clusterHits[1]).c
         THEN "V"
    ELSE "none"

SetMin(S) == CHOOSE x \in S : \A y \in S : x <= y

SetMax(S) == CHOOSE x \in S : \A y \in S : x >= y

\* The two line-extension candidates that are in bounds and not yet shot.
lineFront(first, second, board) ==
    SelectSeq(<<first, second>>,
              LAMBDA p : inBounds(p.r, p.c) /\ ~alreadyShot(board, keyOf(p.r, p.c)))

\* extendLineTargets rebuilding the queue from the line extensions alone.
extendLineTargetsFrontOnly(clusterHits, orientation, queue, board) ==
    LET coords == [i \in DOMAIN clusterHits |-> parseKey(clusterHits[i])]
        rows == {coords[i].r : i \in DOMAIN coords}
        cols == {coords[i].c : i \in DOMAIN coords}
        ends == IF orientation = "H"
                THEN lineFront([r |-> coords[1].r, c |-> SetMin(cols) - 1],
                               [r |-> coords[1].r, c |-> SetMax(cols) + 1], board)
                ELSE lineFront([r |-> SetMin(rows) - 1, c |-> coords[1].c],
                               [r |-> SetMax(rows) + 1, c |-> coords[1].c], board)
    IN  [i \in DOMAIN ends |-> keyOf(ends[i].r, ends[i].c)]

\* extendLineTargets putting the line extensions behind the other cells.
extendLineTargetsBehind(clusterHits, orientation, queue, board) ==
    LET coords == [i \in DOMAIN clusterHits |-> parseKey(clusterHits[i])]
        rows == {coords[i].r : i \in DOMAIN coords}
        cols == {coords[i].c : i \in DOMAIN coords}
        ends == IF orientation = "H"
                THEN lineFront([r |-> coords[1].r, c |-> SetMin(cols) - 1],
                               [r |-> coords[1].r, c |-> SetMax(cols) + 1], board)
                ELSE lineFront([r |-> SetMin(rows) - 1, c |-> coords[1].c],
                               [r |-> SetMax(rows) + 1, c |-> coords[1].c], board)
        front == [i \in DOMAIN ends |-> keyOf(ends[i].r, ends[i].c)]
        queued == aiQueueAdjacentsFromHits(clusterHits, queue, board)
    IN  SelectSeq(queued, LAMBDA k : k \notin Range(front)) \o front

\* The target queue after extendLineTargets.
extendLineTargets(clusterHits, orientation, queue, board) ==
    LET coords == [i \in DOMAIN clusterHits |-> parseKey(clusterHits[i])]
        rows == {coords[i].r : i \in DOMAIN coords}
        cols == {coords[i].c : i \in DOMAIN coords}
        ends == IF orientation = "H"
                THEN lineFront([r |-> coords[1].r, c |-> SetMin(cols) - 1],
                               [r |-> coords[1].r, c |-> SetMax(cols) + 1], board)
                ELSE lineFront([r |-> SetMin(rows) - 1, c |-> coords[1].c],
                               [r |-> SetMax(rows) + 1, c |-> coords[1].c], board)
        front == [i \in DOMAIN ends |-> keyOf(ends[i].r, ends[i].c)]
        queued == aiQueueAdjacentsFromHits(clusterHits, queue, board)
    IN  IF orientation \in {"H", "V"}
        THEN front \o SelectSeq(queued, LAMBDA k : k \notin Range(front))
        ELSE queue

\* The hunt pool without the alreadyShot test.
huntPoolAnyCell(board) ==
    LET parityCells == {k \in Cells : (k[1] + k[2]) % 2 = 0} IN parityCells

\* The pool aiChooseHuntTarget picks from: the unshot checkerboard cells,
\* else the other unshot cells.
huntPool(board) ==
    LET parityCells == {k \in Cells : ~alreadyShot(board, k) /\ (k[1] + k[2]) % 2 = 0}
        otherCells == {k \in Cells : ~alreadyShot(board, k) /\ (k[1] + k[2]) % 2 # 0}
    IN  IF parityCells # {} THEN parityCells ELSE otherCells

\* The picks aiChooseHuntTarget can return: any cell of the pool, or
\* undefined (pool[0] of an empty pool).
aiChooseHuntTarget(board) ==
    IF huntPool(board) = {} THEN {NoCell} ELSE huntPool(board)

\* Pops until an unshot cell: the cell (or NoCell) and the queue left.
RECURSIVE aiChooseTargetModeCell(_, _)
aiChooseTargetModeCell(queue, board) ==
    IF queue = <<>> THEN [t |-> NoCell, queue |-> <<>>]
    ELSE IF ~alreadyShot(board, Head(queue)) THEN [t |-> Head(queue), queue |-> Tail(queue)]
    ELSE aiChooseTargetModeCell(Tail(queue), board)

\* The outcomes of aiDecideNextShot: the cell to fire at and the engine
\* state it leaves.
aiDecideNextShot(ai, board) ==
    LET popped == aiChooseTargetModeCell(ai.targetQueue, board) IN
    IF ai.mode = "TARGET" /\ popped.t # NoCell
    THEN {[pick |-> popped.t, ai |-> [ai EXCEPT !.targetQueue = popped.queue]]}
    ELSE LET hunting == IF ai.mode = "TARGET"
                        THEN [mode |-> "HUNT", targetQueue |-> popped.queue,
                              clusterHits |-> <<>>]
                        ELSE ai
         IN  {[pick |-> p, ai |-> hunting] : p \in aiChooseHuntTarget(board)}

\* The engine state after a hit at hitKey; board already holds the hit.
aiAfterHit(hitKey, ai, board) ==
    Bind(recomputeClusterFromHit(hitKey, board), LAMBDA cluster :
    Bind(aiQueueAdjacentsFromHits(cluster, ai.targetQueue, board), LAMBDA queued :
    Bind(inferOrientation(cluster), LAMBDA ori :
        [mode |-> "TARGET",
         targetQueue |-> IF ori # "none" THEN extendLineTargets(cluster, ori, queued, board)
                                         ELSE queued,
         clusterHits |-> cluster])))

\* aiAfterMiss dropping back to HUNT whatever the queue holds.
aiAfterMissAlwaysHunt(ai) == [ai EXCEPT !.mode = "HUNT", !.clusterHits = <<>>]

aiAfterMiss(ai) ==
    IF Len(ai.targetQueue) = 0
    THEN [ai EXCEPT !.mode = "HUNT", !.clusterHits = <<>>]
    ELSE ai

(***************************************************************************)
(* The process-wide state, as one record.  timers counts the scheduled     *)
(* aiTakeTurnLoop callbacks that have not run yet; storage is the          *)
(* localStorage item under SAVE_KEY.                                       *)
(***************************************************************************)
State ==
    [userBoard |-> userBoard, aiBoard |-> aiBoard, currentTurn |-> currentTurn,
     gameOver |-> gameOver, userShots |-> userShots, aiShots |-> aiShots,
     aiState |-> aiState, status |-> status, storage |-> storage, timers |-> timers]

\* The values of the script's top-level declarations, before init runs.
\* The boards are undefined there; no handler reads them before init
\* assigns them.
ModuleScope(stored) ==
    [userBoard |-> createEmptyBoard, aiBoard |-> createEmptyBoard,
     currentTurn |-> "USER", gameOver |-> FALSE,
     userShots |-> [hits |-> 0, misses |-> 0], aiShots |-> [hits |-> 0, misses |-> 0],
     aiState |-> [mode |-> "HUNT", targetQueue |-> <<>>, clusterHits |-> <<>>],
     status |-> "", storage |-> stored, timers |-> 0]

StartStatus == "You start first. Fire on the AI board."

(***************************************************************************)
(* Save / load.  The stored item is the JSON text; the text of a payload   *)
(* is modelled by the payload itself (JSON keeps numbers, booleans,        *)
(* strings and arrays as they are).  A Set's insertion order is read by    *)
(* setToArray only, so a Set is modelled as a set and setToArray lists it  *)
(* in row-major order.                                                     *)
(***************************************************************************)
\* No item under SAVE_KEY.
NoItem == [kind |-> "none"]

\* An item that JSON.parse rejects.
BadItem == [kind |-> "unparseable"]

RECURSIVE setToArray(_)
setToArray(S) ==
    IF S = {} THEN <<>>
    ELSE Bind(CHOOSE x \in S : \A y \in S : CellIndex(x) <= CellIndex(y),
              LAMBDA m : <<m>> \o setToArray(S \ {m}))

\* new Set(a || []).
arrayToSet(a) == Range(a)

\* boardPayload writing the hits under missCells.
boardPayloadMissFromHits(board) ==
    [shipCells |-> setToArray(board.shipCells),
     hitCells |-> setToArray(board.hitCells),
     missCells |-> setToArray(board.hitCells)]

boardPayload(board) ==
    [shipCells |-> setToArray(board.shipCells),
     hitCells |-> setToArray(board.hitCells),
     missCells |-> setToArray(board.missCells)]

payloadOf(s) ==
    [version |-> SAVE_VERSION,
     currentTurn |-> s.currentTurn,
     gameOver |-> s.gameOver,
     userShots |-> s.userShots,
     aiShots |-> s.aiShots,
     userBoard |-> boardPayload(s.userBoard),
     aiBoard |-> boardPayload(s.aiBoard),
     aiState |-> [mode |-> s.aiState.mode, targetQueue |-> s.aiState.targetQueue,
                  clusterHits |-> s.aiState.clusterHits],
     ui |-> [status |-> s.status]]

\* saveGame writing the engine with the queue it had on the last save.
saveGameStaleQueue(s) ==
    Bind(s, LAMBDA now :
        [now EXCEPT !.storage =
            [kind |-> "json",
             data |-> [payloadOf(now) EXCEPT
                         !.aiState.targetQueue =
                             IF now.storage.kind = "json"
                             THEN now.storage.data.aiState.targetQueue ELSE <<>>]]])

saveGame(s) ==
    Bind(s, LAMBDA now : [now EXCEPT !.storage = [kind |-> "json", data |-> payloadOf(now)]])

\* A missing object or array: it has no fields and no elements.
Absent == <<>>

\* data?.f, with the value the script uses when the field is missing.
Field(data, f, default) == IF f \in DOMAIN data THEN data[f] ELSE default

boardOf(b) ==
    [shipCells |-> arrayToSet(Field(b, "shipCells", Absent)),
     hitCells |-> arrayToSet(Field(b, "hitCells", Absent)),
     missCells |-> arrayToSet(Field(b, "missCells", Absent))]

\* loadGame: whether it loaded, and the state it leaves.
loadGame(s) ==
    IF s.storage.kind # "json" THEN [ok |-> FALSE, state |-> s]
    ELSE LET data == s.storage.data
             ai == Field(data, "aiState", Absent)
             text == Field(Field(data, "ui", Absent), "status", "")
         IN  [ok |-> TRUE,
              state |->
                [s EXCEPT
                   !.userBoard = boardOf(Field(data, "userBoard", Absent)),
                   !.aiBoard = boardOf(Field(data, "aiBoard", Absent)),
                   !.currentTurn = IF Field(data, "currentTurn", "") = "AI" THEN "AI"
                                                                             ELSE "USER",
                   !.gameOver = Field(data, "gameOver", FALSE),
                   !.userShots = Field(data, "userShots", [hits |-> 0, misses |-> 0]),
                   !.aiShots = Field(data, "aiShots", [hits |-> 0, misses |-> 0]),
                   !.aiState =
                       [mode |-> IF Field(ai, "mode", "") = "TARGET" THEN "TARGET"
                                                                     ELSE "HUNT",
                        targetQueue |-> Field(ai, "targetQueue", <<>>),
                        clusterHits |-> Field(ai, "clusterHits", <<>>)],
                   !.status = IF text = "" THEN StartStatus ELSE text]]

(***************************************************************************)
(* Turns.                                                                  *)
(***************************************************************************)
endGame(s, winner) ==
    [s EXCEPT !.gameOver = TRUE,
              !.status = IF winner = "User" THEN "You win! You sank all AI ships."
                                            ELSE "AI wins! It sank all your ships."]

\* onUserFireAtAI passing the turn after a hit as after a miss.
onUserFireAtAIPassOnHit(s, r, c) ==
    IF s.gameOver THEN s
    ELSE IF s.currentTurn # "USER" THEN s
    ELSE LET shot == applyShot(s.aiBoard, r, c)
             fired == [s EXCEPT !.aiBoard = shot.board]
         IN
         IF ~shot.valid THEN s
         ELSE IF shot.isHit
         THEN LET hit == [fired EXCEPT !.userShots.hits = @ + 1,
                                       !.status = "You hit a ship! Shoot again."]
              IN  IF hasWon(hit.aiBoard)
                  THEN saveGame(endGame(hit, "User"))
                  ELSE saveGame([hit EXCEPT !.currentTurn = "AI", !.timers = @ + 1])
         ELSE saveGame([fired EXCEPT !.userShots.misses = @ + 1,
                                     !.status = "You missed. AI is firing...",
                                     !.currentTurn = "AI",
                                     !.timers = @ + 1])

\* The click handler of the cell (r, c) of the computer's board.
onUserFireAtAI(s, r, c) ==
    IF s.gameOver THEN s
    ELSE IF s.currentTurn # "USER" THEN s
    ELSE LET shot == applyShot(s.aiBoard, r, c)
             fired == [s EXCEPT !.aiBoard = shot.board]
         IN
         IF ~shot.valid THEN s
         ELSE IF shot.isHit
         THEN LET hit == [fired EXCEPT !.userShots.hits = @ + 1,
                                       !.status = "You hit a ship! Shoot again."]
              IN  IF hasWon(hit.aiBoard)
                  THEN saveGame(endGame(hit, "User"))
                  ELSE saveGame([hit EXCEPT !.currentTurn = "USER"])
         ELSE saveGame([fired EXCEPT !.userShots.misses = @ + 1,
                                     !.status = "You missed. AI is firing...",
                                     !.currentTurn = "AI",
                                     !.timers = @ + 1])

\* One shot of aiTakeTurnLoop at the picked cell, the engine being in state
\* ai after the decision.  An undefined pick makes the destructuring throw:
\* the callback ends there, after the decision changed the engine.
aiShoot(s, ai, pick) ==
    LET decided == [s EXCEPT !.aiState = ai] IN
    IF pick = NoCell THEN decided
    ELSE Bind(applyShot(s.userBoard, parseKey(pick).r, parseKey(pick).c), LAMBDA shot :
         IF ~shot.valid THEN decided
         ELSE IF shot.isHit
         THEN Bind([decided EXCEPT
                      !.userBoard = shot.board,
                      !.aiShots.hits = @ + 1,
                      !.status = "AI hit your ship! AI shoots again.",
                      !.aiState = aiAfterHit(shot.key, ai, shot.board)],
                   LAMBDA hit :
                      IF hasWon(hit.userBoard)
                      THEN saveGame(endGame(hit, "AI"))
                      ELSE saveGame([hit EXCEPT !.currentTurn = "AI", !.timers = @ + 1]))
         ELSE saveGame([decided EXCEPT
                          !.userBoard = shot.board,
                          !.aiShots.misses = @ + 1,
                          !.status = "AI missed. Your turn - fire on the AI board.",
                          !.aiState = aiAfterMiss(ai),
                          !.currentTurn = "USER"]))

\* aiTakeTurnLoop with the turn test the wrong way round.
aiTakeTurnLoopWrongTurn(s) ==
    IF s.gameOver THEN {s}
    ELSE IF s.currentTurn # "USER" THEN {s}
    ELSE {aiShoot(s, d.ai, d.pick) : d \in aiDecideNextShot(s.aiState, s.userBoard)}

\* The states a run of the timer callback can leave (s: the state when the
\* callback starts, its timer already consumed).
aiTakeTurnLoop(s) ==
    IF s.gameOver THEN {s}
    ELSE IF s.currentTurn # "AI" THEN {s}
    ELSE {aiShoot(s, d.ai, d.pick) : d \in aiDecideNextShot(s.aiState, s.userBoard)}

(***************************************************************************)
(* Reset, clear, page load.                                                *)
(***************************************************************************)
resetGame(s) ==
    {saveGame([s EXCEPT
                 !.userBoard = ub, !.aiBoard = ab,
                 !.userShots = [hits |-> 0, misses |-> 0],
                 !.aiShots = [hits |-> 0, misses |-> 0],
                 !.aiState = [mode |-> "HUNT", targetQueue |-> <<>>, clusterHits |-> <<>>],
                 !.gameOver = FALSE, !.currentTurn = "USER",
                 !.status = StartStatus]) :
        ub \in placeAllShipsRandomly(createEmptyBoard),
        ab \in placeAllShipsRandomly(createEmptyBoard)}

clearSavedGame(s) == resetGame([s EXCEPT !.storage = NoItem])

\* The script's last statement, run once per page load on the stored item:
\* restore the saved game, else start a new one.
init(stored) ==
    LET loaded == loadGame(ModuleScope(stored)) IN
    IF loaded.ok THEN {loaded.state} ELSE resetGame(ModuleScope(stored))

(***************************************************************************)
(* Actions.                                                                *)
(***************************************************************************)
Apply(s) ==
    /\ userBoard' = s.userBoard
    /\ aiBoard' = s.aiBoard
    /\ currentTurn' = s.currentTurn
    /\ gameOver' = s.gameOver
    /\ userShots' = s.userShots
    /\ aiShots' = s.aiShots
    /\ aiState' = s.aiState
    /\ status' = s.status
    /\ storage' = s.storage
    /\ timers' = s.timers
    /\ UNCHANGED placing

\* The cells the human clicks.
ClickCells == {k \in Cells : CellIndex(k) < MaxClick}

\* The human clicks a cell of the computer's board.
UserFire ==
    \E k \in ClickCells :
        LET n == onUserFireAtAI(State, k[1], k[2]) IN
        /\ n.timers <= MaxTimers
        /\ Apply(n)

\* A scheduled aiTakeTurnLoop callback runs.
AiStep ==
    /\ timers > 0
    /\ \E n \in aiTakeTurnLoop([State EXCEPT !.timers = @ - 1]) : Apply(n)

\* The human clicks the reset button.
ResetClick == \E n \in resetGame(State) : Apply(n)

\* The human clicks the clear-save button.
ClearSaveClick == \E n \in clearSavedGame(State) : Apply(n)

\* The page is reloaded: the scheduled callbacks are gone and the script
\* starts again on the stored item.
PageReload == \E n \in init(storage) : Apply(n)

\* The variables hold the state s.
Holds(s) ==
    /\ userBoard = s.userBoard
    /\ aiBoard = s.aiBoard
    /\ currentTurn = s.currentTurn
    /\ gameOver = s.gameOver
    /\ userShots = s.userShots
    /\ aiShots = s.aiShots
    /\ aiState = s.aiState
    /\ status = s.status
    /\ storage = s.storage
    /\ timers = s.timers

\* A first visit: nothing is stored, the script starts a fresh game.
Init == placing = 0 /\ \E n \in init(NoItem) : Holds(n)

Next == UserFire \/ AiStep \/ ResetClick \/ ClearSaveClick \/ PageReload

Spec == Init /\ [][Next]_vars

\* A reload that discards no scheduled callback.
ReloadWhenIdle == timers = 0 /\ PageReload

\* The runs in which every scheduled callback runs: the browser fires a timer
\* 550 ms after it is set, unless the page is left before.
NextFair == UserFire \/ AiStep \/ ResetClick \/ ClearSaveClick \/ ReloadWhenIdle

LiveSpec == Init /\ [][NextFair]_vars /\ WF_vars(AiStep)

\* Items a visit can find under SAVE_KEY: none, one that is not JSON, and
\* snapshots of a game after its first shot, written by this version of the
\* script or by its successor.
StoredVersions == {SAVE_VERSION, SAVE_VERSION + 1}

StoredGames ==
    {onUserFireAtAI(s, k[1], k[2]) :
        s \in resetGame(ModuleScope(NoItem)), k \in {keyOf(0, 0), keyOf(0, 2)}}

\* An item that parses to an object holding no board: {"version": 2}.
NoBoardsItem == [kind |-> "json", data |-> [version |-> SAVE_VERSION]]

StoredItems ==
    {NoItem, BadItem, NoBoardsItem} \cup
    {[kind |-> "json", data |-> [payloadOf(s) EXCEPT !.version = v]] :
        s \in StoredGames, v \in StoredVersions}

\* A visit that finds any of these items.
StoreInit == placing = 0 /\ \E item \in StoredItems : \E n \in init(item) : Holds(n)

StoreSpec == StoreInit /\ [][Next]_vars

\* The two placeAllShipsRandomly calls of resetGame taken one ship at a
\* time, the sampler free to make every draw: the human's fleet first, then
\* the computer's, each ship on the board the earlier ships left.
PlaceInit == placing = 0 /\ Holds(ModuleScope(NoItem))

PlaceShip ==
    /\ placing < 2 * Len(SHIPS)
    /\ LET length == SHIPS[(placing % Len(SHIPS)) + 1] IN
       IF placing < Len(SHIPS)
       THEN /\ userBoard' \in placeOneShipRandomly(userBoard, length, AllDraws(length))
            /\ aiBoard' = aiBoard
       ELSE /\ aiBoard' \in placeOneShipRandomly(aiBoard, length, AllDraws(length))
            /\ userBoard' = userBoard
    /\ placing' = placing + 1
    /\ UNCHANGED <<currentTurn, gameOver, userShots, aiShots, aiState, status,
                   storage, timers>>

PlaceSpec == PlaceInit /\ [][PlaceShip]_vars

(***************************************************************************)
(* Properties.                                                             *)
(***************************************************************************)
ShotCells(board) == board.hitCells \cup board.missCells

\* Every ship cell of the board is hit.
AllHit(board) == board.shipCells \subseteq board.hitCells

\* From board before to board after, exactly one more cell is shot.
OneNewShot(before, after) ==
    /\ after.shipCells = before.shipCells
    /\ \E k \in Cells \ ShotCells(before) : ShotCells(after) = ShotCells(before) \cup {k}

NewShot(before, after) == CHOOSE k \in ShotCells(after) \ ShotCells(before) : TRUE

FreshGame ==
    /\ ShotCells(userBoard) = {} /\ ShotCells(aiBoard) = {}
    /\ userShots = [hits |-> 0, misses |-> 0]
    /\ aiShots = [hits |-> 0, misses |-> 0]

\* A step that shoots one cell of the defender's board is taken by the
\* shooter in a game that is not over; a hit that leaves a ship cell unhit
\* leaves the turn with the shooter, a miss gives it to the other side.
TurnRule(before, after, turnAfter, shooter, other) ==
    OneNewShot(before, after) =>
        /\ currentTurn = shooter /\ ~gameOver
        /\ IF NewShot(before, after) \in before.shipCells
           THEN ~AllHit(after) => turnAfter = shooter
           ELSE turnAfter = other

\* C1: a fresh game starts with the human's turn, and after every valid
\* shot, by the human or by the computer, the shooter keeps the turn on a
\* hit that does not complete the board and loses it on a miss.
C1_TurnKeepOnHit ==
    /\ [](FreshGame => currentTurn = "USER")
    /\ [][/\ TurnRule(aiBoard, aiBoard', currentTurn', "USER", "AI")
          /\ TurnRule(userBoard, userBoard', currentTurn', "AI", "USER")]_vars

\* The computer has hit and kept the turn, after the human had hit, kept
\* the turn and then missed.
C1_Witness ==
    /\ status = "AI hit your ship! AI shoots again."
    /\ currentTurn = "AI" /\ ~gameOver
    /\ userShots.hits > 0 /\ userShots.misses > 0

\* C2: the game is over exactly when all ship cells of one board are hit,
\* the status names the shooter of the completing hit as the winner, and
\* while the game stays over (until a reset) no step changes a board, a
\* tally, the turn or the targeting state.
C2_GameOverExact ==
    /\ [](gameOver <=> (AllHit(userBoard) \/ AllHit(aiBoard)))
    /\ [](gameOver =>
            \/ AllHit(aiBoard) /\ currentTurn = "USER"
                 /\ status = "You win! You sank all AI ships."
            \/ AllHit(userBoard) /\ currentTurn = "AI"
                 /\ status = "AI wins! It sank all your ships.")
    /\ [][(gameOver /\ gameOver') =>
            UNCHANGED <<userBoard, aiBoard, userShots, aiShots, currentTurn, aiState>>]_vars

\* The computer has sunk the human's fleet while a callback scheduled in an
\* earlier game is still pending.
C2_Witness ==
    /\ gameOver /\ AllHit(userBoard) /\ ~AllHit(aiBoard)
    /\ status = "AI wins! It sank all your ships."
    /\ timers > 0

\* C3: a fire command is a no-op when the game is over, when it is not the
\* firing side's turn or when the cell was already shot: the click handler
\* and the computer's callback return the state they were given (boards,
\* tallies, turn, gameOver, targeting state, stored snapshot), and applyShot
\* answers valid = false and leaves the board as it is.
C3_RejectedFireIsNoOp ==
    /\ \A k \in Cells :
         (gameOver \/ currentTurn # "USER" \/ alreadyShot(aiBoard, k))
            => onUserFireAtAI(State, k[1], k[2]) = State
    /\ (gameOver \/ currentTurn # "AI") => aiTakeTurnLoop(State) = {State}
    /\ \A k \in Cells :
         /\ alreadyShot(aiBoard, k) =>
              /\ ~applyShot(aiBoard, k[1], k[2]).valid
              /\ applyShot(aiBoard, k[1], k[2]).board = aiBoard
         /\ alreadyShot(userBoard, k) =>
              /\ ~applyShot(userBoard, k[1], k[2]).valid
              /\ applyShot(userBoard, k[1], k[2]).board = userBoard

\* It is the human's turn in a running game and the human has already shot
\* cells of the computer's board, hits and misses: a click on one of them
\* is the re-fire of the claim.
C3_Witness ==
    /\ ~gameOver /\ currentTurn = "USER"
    /\ \E k \in ClickCells : k \in aiBoard.hitCells
    /\ \E k \in ClickCells : k \in aiBoard.missCells

\* C4: on each board the hits are ship cells, the misses are not, and no
\* cell is both; each tally counts the cells of its set, so that no cell
\* was shot twice.
C4_BoardSetsDisjoint ==
    /\ \A board \in {userBoard, aiBoard} :
         /\ board.hitCells \subseteq board.shipCells
         /\ board.missCells \cap board.shipCells = {}
         /\ board.hitCells \cap board.missCells = {}
    /\ userShots = [hits |-> Cardinality(aiBoard.hitCells),
                    misses |-> Cardinality(aiBoard.missCells)]
    /\ aiShots = [hits |-> Cardinality(userBoard.hitCells),
                  misses |-> Cardinality(userBoard.missCells)]

\* Both boards hold hits and misses.
C4_Witness ==
    /\ userBoard.hitCells # {} /\ userBoard.missCells # {}
    /\ aiBoard.hitCells # {} /\ aiBoard.missCells # {}

\* C5: while the computer holds the turn in a running game a callback is
\* pending, each callback fires exactly one shot at the human's board and
\* then either ends the game, hands the turn over or schedules the next
\* callback; and, every scheduled callback running, the computer's turn
\* leads to the human's turn or to the end of the game.
C5_ComputerTurnEnds ==
    /\ []((currentTurn = "AI" /\ ~gameOver) =>
            /\ timers > 0
            /\ \A n \in aiTakeTurnLoop([State EXCEPT !.timers = @ - 1]) :
                 /\ OneNewShot(userBoard, n.userBoard)
                 /\ \/ n.gameOver /\ n.timers = timers - 1
                    \/ ~n.gameOver /\ n.currentTurn = "USER" /\ n.timers = timers - 1
                    \/ ~n.gameOver /\ n.currentTurn = "AI" /\ n.timers = timers)
    /\ ((currentTurn = "AI" /\ ~gameOver) ~> (currentTurn = "USER" \/ gameOver))

\* The computer has hit, shot again and missed: the turn is back with the
\* human.
C5_Witness ==
    /\ status = "AI missed. Your turn - fire on the AI board."
    /\ currentTurn = "USER" /\ ~gameOver
    /\ aiShots.hits > 0 /\ timers = 0

\* C6: while the computer holds the turn in a running game, every outcome
\* of aiDecideNextShot, in either mode, is a cell of the grid that is not
\* yet shot on the human's board; it is never undefined.
C6_DecisionIsUnshotCell ==
    (currentTurn = "AI" /\ ~gameOver) =>
        \A d \in aiDecideNextShot(aiState, userBoard) :
            /\ d.pick # NoCell
            /\ inBounds(parseKey(d.pick).r, parseKey(d.pick).c)
            /\ ~alreadyShot(userBoard, d.pick)

\* The computer holds the turn in TARGET mode with an empty queue, the
\* human's board holding hits and misses: the decision falls back to the
\* hunt pool.
C6_Witness ==
    /\ currentTurn = "AI" /\ ~gameOver
    /\ aiState.mode = "TARGET" /\ aiState.targetQueue = <<>>
    /\ userBoard.hitCells # {} /\ userBoard.missCells # {}

\* The state loadGame builds from the snapshot saveGame writes of state s.
Reloaded(s) == loadGame(ModuleScope(saveGame(s).storage))

\* C7: loading the snapshot that saveGame writes of the current state gives
\* back the same ship, hit and miss cells of both boards, the same turn,
\* gameOver and tallies, and the same targeting mode, queue (in order) and
\* cluster.
C7_SaveLoadRoundTrip ==
    /\ Reloaded(State).ok
    /\ Reloaded(State).state.userBoard = userBoard
    /\ Reloaded(State).state.aiBoard = aiBoard
    /\ Reloaded(State).state.currentTurn = currentTurn
    /\ Reloaded(State).state.gameOver = gameOver
    /\ Reloaded(State).state.userShots = userShots
    /\ Reloaded(State).state.aiShots = aiShots
    /\ Reloaded(State).state.aiState = aiState

\* The computer holds the turn in TARGET mode with two or more cells queued
\* and both boards hold hits and misses.
C7_Witness ==
    /\ currentTurn = "AI" /\ ~gameOver
    /\ aiState.mode = "TARGET" /\ Len(aiState.targetQueue) >= 2
    /\ aiState.clusterHits # <<>>
    /\ userBoard.hitCells # {} /\ userBoard.missCells # {}
    /\ aiBoard.hitCells # {} /\ aiBoard.missCells # {}

\* C8: a game restored from its snapshot is never left with the computer
\* holding the turn, the game not over and no computer step pending.
C8_RestoredTurnHasStep ==
    (currentTurn = "AI" /\ ~gameOver) => timers > 0

\* C9: between two actions the stored snapshot is the one saveGame writes of
\* the state in memory: boards, turn, gameOver, tallies and targeting state,
\* the queue as the last decision left it.
C9_SnapshotIsMemory ==
    storage = [kind |-> "json", data |-> payloadOf(State)]

\* The computer has shot a queued cell and missed, and cells are still
\* queued.
C9_Witness ==
    /\ status = "AI missed. Your turn - fire on the AI board."
    /\ aiState.mode = "TARGET" /\ aiState.targetQueue # <<>>
    /\ currentTurn = "USER" /\ ~gameOver

\* The state of a game in which nothing was shot yet.
Defaults(s) ==
    /\ ShotCells(s.userBoard) = {} /\ ShotCells(s.aiBoard) = {}
    /\ s.userShots = [hits |-> 0, misses |-> 0]
    /\ s.aiShots = [hits |-> 0, misses |-> 0]
    /\ s.currentTurn = "USER" /\ ~s.gameOver
    /\ s.aiState = [mode |-> "HUNT", targetQueue |-> <<>>, clusterHits |-> <<>>]

\* C10: a stored snapshot whose version is not the current one is rejected
\* by loadGame, and a page load on it starts from the defaults.
C10_UnknownVersionRejected ==
    (storage.kind = "json" /\ storage.data.version # SAVE_VERSION) =>
        /\ ~loadGame(ModuleScope(storage)).ok
        /\ \A n \in init(storage) : Defaults(n)

RECURSIVE SumOf(_)
SumOf(seq) == IF seq = <<>> THEN 0 ELSE Head(seq) + SumOf(Tail(seq))

\* The stored item is not a usable save: it does not parse, or it parses to
\* something that does not hold the two boards.
InvalidItem(item) ==
    \/ item.kind = "unparseable"
    \/ item.kind = "json" /\ ~({"userBoard", "aiBoard"} \subseteq DOMAIN item.data)

\* A fresh game: the defaults, and the whole fleet on both boards.
FreshFleet(s) ==
    /\ Defaults(s)
    /\ Cardinality(s.userBoard.shipCells) = SumOf(SHIPS)
    /\ Cardinality(s.aiBoard.shipCells) = SumOf(SHIPS)

\* C11: for every stored item that does not parse or does not hold the two
\* boards (the ones a visit can find, and the one stored now), loadGame
\* reports failure and the page load starts a fresh game: the whole fleet
\* on both boards, no shot, zero tallies, HUNT mode, the human's turn.
C11_InvalidSnapshotIsNoSave ==
    \A item \in StoredItems \cup {storage} :
        InvalidItem(item) =>
            /\ ~loadGame(ModuleScope(item)).ok
            /\ \A n \in init(item) : FreshFleet(n)

\* The cells form a straight contiguous run of the given length inside the
\* grid, in one row or in one column.
StraightRun(cells, length) ==
    \E r \in 0..(GRID_SIZE - 1), c \in 0..(GRID_SIZE - 1) :
        \/ /\ c + length <= GRID_SIZE
           /\ cells = {keyOf(r, c + i) : i \in 0..(length - 1)}
        \/ /\ r + length <= GRID_SIZE
           /\ cells = {keyOf(r + i, c) : i \in 0..(length - 1)}

\* From board before to board after one ship of the given length is added.
ShipAdded(before, after, length) ==
    /\ before.shipCells \subseteq after.shipCells
    /\ Cardinality(after.shipCells \ before.shipCells) = length
    /\ StraightRun(after.shipCells \ before.shipCells, length)

\* C12: every ship the sampler places is a straight contiguous horizontal
\* or vertical run of its length inside the grid that shares no cell with
\* the ships placed before, and a board with the whole fleet holds as many
\* ship cells as the fleet lengths add up to.
C12_PlacementNoOverlap ==
    /\ [][placing' = placing + 1 =>
            LET length == SHIPS[(placing % Len(SHIPS)) + 1] IN
            \/ ShipAdded(userBoard, userBoard', length) /\ aiBoard' = aiBoard
            \/ ShipAdded(aiBoard, aiBoard', length) /\ userBoard' = userBoard]_vars
    /\ [](/\ userBoard.shipCells \subseteq Cells /\ aiBoard.shipCells \subseteq Cells
          /\ placing >= Len(SHIPS) =>
                Cardinality(userBoard.shipCells) = SumOf(SHIPS)
          /\ placing = 2 * Len(SHIPS) =>
                Cardinality(aiBoard.shipCells) = SumOf(SHIPS))

\* Both fleets are placed; the human's board holds a horizontal ship in the
\* top row and a vertical ship below its end.
C12_Witness ==
    /\ placing = 2 * Len(SHIPS)
    /\ userBoard.shipCells = {keyOf(0, 0), keyOf(0, 1), keyOf(1, 1), keyOf(2, 1)}
    /\ aiBoard.shipCells # userBoard.shipCells

\* Two cells side by side in a row or in a column.
Adjacent(j, k) ==
    \/ j[1] = k[1] /\ (j[2] = k[2] + 1 \/ k[2] = j[2] + 1)
    \/ j[2] = k[2] /\ (j[1] = k[1] + 1 \/ k[1] = j[1] + 1)

\* Two cells that touch at a corner only.
Diagonal(j, k) ==
    /\ (j[1] = k[1] + 1 \/ k[1] = j[1] + 1)
    /\ (j[2] = k[2] + 1 \/ k[2] = j[2] + 1)

\* The cells of hits joined to the cells of S through adjacent cells of hits.
RECURSIVE Component(_, _)
Component(S, hits) ==
    LET grown == S \cup {k \in hits : \E j \in S : Adjacent(j, k)} IN
    IF grown = S THEN S ELSE Component(grown, hits)

\* The step is a hit of the computer.
ComputerHits == aiShots'.hits = aiShots.hits + 1

\* C13: every hit of the computer, at cell c, leaves the engine in TARGET
\* mode with clusterHits listing, each once, exactly the hit cells of the
\* human's board joined to c through side-by-side hit cells.
C13_ClusterIsComponent ==
    [][ComputerHits =>
         /\ aiState'.mode = "TARGET"
         /\ Range(aiState'.clusterHits) =
                Component({NewShot(userBoard, userBoard')}, userBoard'.hitCells)
         /\ Len(aiState'.clusterHits) = Cardinality(Range(aiState'.clusterHits))]_vars

\* After a hit of the computer the cluster has two or more cells and a hit
\* cell outside it touches one of them at a corner.
C13_Witness ==
    /\ aiShots.hits > 0 /\ aiState.mode = "TARGET"
    /\ Len(aiState.clusterHits) >= 2
    /\ \E k \in userBoard.hitCells \ Range(aiState.clusterHits) :
         \E j \in Range(aiState.clusterHits) : Diagonal(j, k)

\* A board with one ship at (0,0)-(0,1), hit at the corner (0,0) only.
CornerBoard ==
    [shipCells |-> {keyOf(0, 0), keyOf(0, 1)}, hitCells |-> {keyOf(0, 0)}, missCells |-> {}]

\* The engine after that lone hit, taken in HUNT mode with nothing queued.
CornerHit ==
    aiAfterHit(keyOf(0, 0),
               [mode |-> "HUNT", targetQueue |-> <<>>, clusterHits |-> <<>>], CornerBoard)

\* C14: after every hit of the computer the queue holds every cell of the
\* grid that is side by side with a cell of clusterHits and not yet shot,
\* holds cells of the grid only, and still holds every cell that was queued
\* before the shot, the cell fired at excepted; a lone hit at the corner
\* (0,0) of a ship at (0,0)-(0,1) gives clusterHits = [(0,0)] and a queue
\* that holds (0,1).
C14_QueueHoldsNeighbours ==
    /\ [][ComputerHits =>
            /\ \A j \in Range(aiState'.clusterHits) : \A k \in Cells :
                  (Adjacent(j, k) /\ ~alreadyShot(userBoard', k))
                      => k \in Range(aiState'.targetQueue)
            /\ Range(aiState'.targetQueue) \subseteq Cells
            /\ Range(aiState.targetQueue) \ {NewShot(userBoard, userBoard')}
                  \subseteq Range(aiState'.targetQueue)]_vars
    /\ [](/\ CornerHit.clusterHits = <<keyOf(0, 0)>>
          /\ keyOf(0, 1) \in Range(CornerHit.targetQueue)
          /\ Range(CornerHit.targetQueue) \subseteq Cells)

\* The computer has hit a second cell of a cluster and keeps the turn: the
\* queue holds the line extension and cells queued by the first hit.
C14_Witness ==
    /\ status = "AI hit your ship! AI shoots again."
    /\ Len(aiState.clusterHits) = 2
    /\ Len(aiState.targetQueue) >= 3

\* Two or more cells, all in one row or all in one column.
InOneRow(cluster) == \A i \in DOMAIN cluster : cluster[i][1] = cluster[1][1]

InOneColumn(cluster) == \A i \in DOMAIN cluster : cluster[i][2] = cluster[1][2]

Collinear(cluster) == Len(cluster) >= 2 /\ (InOneRow(cluster) \/ InOneColumn(cluster))

\* The cell one step before the low end of the line, then the cell one
\* step past its high end; those of the two that are cells of the grid not
\* yet shot on the board.
LineExtensions(cluster, board) ==
    LET rows == {cluster[i][1] : i \in DOMAIN cluster}
        cols == {cluster[i][2] : i \in DOMAIN cluster}
        both == IF InOneRow(cluster)
                THEN <<keyOf(cluster[1][1], SetMin(cols) - 1),
                       keyOf(cluster[1][1], SetMax(cols) + 1)>>
                ELSE <<keyOf(SetMin(rows) - 1, cluster[1][2]),
                       keyOf(SetMax(rows) + 1, cluster[1][2])>>
    IN  SelectSeq(both, LAMBDA k : k \in Cells /\ k \notin ShotCells(board))

\* seq starts with the sequence front.
StartsWith(seq, front) ==
    Len(seq) >= Len(front) /\ \A i \in DOMAIN front : seq[i] = front[i]

ComputerShoots == OneNewShot(userBoard, userBoard')

\* C16: after every step of the computer, a hit as well as a miss, an empty
\* queue goes with HUNT mode and an empty cluster, and after a miss that
\* leaves cells queued the mode is still TARGET.
C16_EmptyQueueMeansHunt ==
    [][ComputerShoots =>
         /\ aiState'.targetQueue = <<>> =>
               (aiState'.mode = "HUNT" /\ aiState'.clusterHits = <<>>)
         /\ (~ComputerHits /\ aiState'.targetQueue # <<>>) => aiState'.mode = "TARGET"]_vars

\* Every group of ship cells of the board joined side by side is a
\* straight run: no two ships lie side by side or meet at a bend.
StraightGroups(board) ==
    \A k \in board.shipCells :
        LET group == Component({k}, board.shipCells) IN
        \/ \A j \in group : j[1] = k[1]
        \/ \A j \in group : j[2] = k[2]

\* C17 as stated: a cluster of two or more cells lies in one row or in one
\* column, so inferOrientation answers H or V for it.
C17_ClusterIsStraight ==
    Len(aiState.clusterHits) >= 2 =>
        /\ Collinear(aiState.clusterHits)
        /\ inferOrientation(aiState.clusterHits) \in {"H", "V"}

\* C17, amended: on a board whose groups of side-by-side ship cells are all
\* straight runs, a cluster of two or more cells lies in one row or in one
\* column and inferOrientation answers H or V for it; a bent cluster, for
\* which inferOrientation answers unknown, joins hits of ships lying side
\* by side.
C17_ClusterStraightOnStraightGroups ==
    /\ (StraightGroups(userBoard) /\ Len(aiState.clusterHits) >= 2) =>
          /\ Collinear(aiState.clusterHits)
          /\ inferOrientation(aiState.clusterHits) \in {"H", "V"}
    /\ (Len(aiState.clusterHits) >= 2 /\ ~Collinear(aiState.clusterHits)) =>
          /\ inferOrientation(aiState.clusterHits) = "none"
          /\ ~StraightGroups(userBoard)

\* On a board whose two ships lie apart the computer has missed and then
\* hit the two cells of one ship.
C17_Witness ==
    /\ StraightGroups(userBoard)
    /\ Len(aiState.clusterHits) = 2
    /\ userBoard.missCells # {}
    /\ aiState.mode = "TARGET" /\ ~gameOver

\* C18: in HUNT mode the queue and the cluster are empty.
C18_HuntMeansEmpty ==
    aiState.mode = "HUNT" => (aiState.targetQueue = <<>> /\ aiState.clusterHits = <<>>)

\* The engine is back in HUNT mode after hits and misses of the computer,
\* in a running game.
C18_Witness ==
    /\ aiState.mode = "HUNT" /\ ~gameOver
    /\ aiShots.hits > 0 /\ aiShots.misses > 0

\* C19: the queue holds no cell twice and only cells of the grid not yet
\* shot on the human's board; so, when the computer decides in TARGET mode
\* with cells queued, it fires at the head of the queue and the rest of the
\* queue is left as it was.
C19_QueueUnshotNoDuplicates ==
    /\ Len(aiState.targetQueue) = Cardinality(Range(aiState.targetQueue))
    /\ Range(aiState.targetQueue) \subseteq Cells
    /\ Range(aiState.targetQueue) \cap ShotCells(userBoard) = {}
    /\ (aiState.mode = "TARGET" /\ aiState.targetQueue # <<>>) =>
          \A d \in aiDecideNextShot(aiState, userBoard) :
              /\ d.pick = Head(aiState.targetQueue)
              /\ d.ai.targetQueue = Tail(aiState.targetQueue)

\* The computer holds the turn in TARGET mode with three or more cells
\* queued around a cluster of two, misses lying on the human's board.
C19_Witness ==
    /\ currentTurn = "AI" /\ ~gameOver /\ aiState.mode = "TARGET"
    /\ Len(aiState.targetQueue) >= 3 /\ Len(aiState.clusterHits) >= 2
    /\ userBoard.missCells # {}

\* C20: at most one aiTakeTurnLoop callback is pending, and one is pending
\* only while the computer holds the turn in a running game; so no callback
\* scheduled before a reset is left to fire in the game the reset starts.
C20_OneStepPending ==
    /\ timers <= 1
    /\ timers > 0 => (currentTurn = "AI" /\ ~gameOver)

====
